---- MODULE Spec2Model ----
(***************************************************************************)
(* Model of NUFFT/FGG_Convolution3D_type2.c: the type-II fast Gaussian     *)
(* gridding convolution loop (mexFunction).                                *)
(*                                                                         *)
(* Representation of the double values.                                    *)
(*   A knot coordinate on an axis of extent N is held as an integer k and  *)
(*   stands for the angle 2*pi*k/(N*Sub); [0, 2pi) is k in 0..N*Sub-1.     *)
(*   A value of the form exp(t) is held by its exponent t, counted in the  *)
(*   axis' unit u = (2pi/N)^2 / (4*Sub^2*TauLcm): multiplying two such     *)
(*   values adds the exponents, 1/v negates it, and 1 is exponent 0.       *)
(*   A weight is a monomial [e |-> <<ex,ey,ez>>, c |-> integer]: the real  *)
(*   c * exp(ex*ux + ey*uy + ez*uz).  An output accumulator is a sum of    *)
(*   monomials, held as a function from exponent triples to their nonzero  *)
(*   integer coefficients.  The arithmetic is exact: floating-point        *)
(*   rounding is outside the model.                                        *)
(***************************************************************************)
EXTENDS Integers, Sequences, FiniteSets, TLC

\* ---------------------------------------------------------------- bounds
MaxHalfExtent == 3
MaxKnots == 2
Sub == 2
TauLcm == 2

Extents == {2 * h : h \in 1..MaxHalfExtent}

\* ------------------------------------------------------ exact arithmetic
Min2(a, b) == IF a < b THEN a ELSE b
Min3(a, b, c) == Min2(a, Min2(b, c))

ExpOne == 0
ExpMul(a, b) == a + b
ExpInv(a) == 0 - a

RECURSIVE ExpPow(_, _)
ExpPow(a, n) == IF n = 0 THEN ExpOne
                ELSE IF n > 0 THEN ExpMul(a, ExpPow(a, n - 1))
                ELSE ExpMul(ExpInv(a), ExpPow(a, n + 1))

Mono(ex, ey, ez, c) == [e |-> <<ex, ey, ez>>, c |-> c]
MonoMul(a, b) == [e |-> <<a.e[1] + b.e[1], a.e[2] + b.e[2], a.e[3] + b.e[3]>>,
                  c |-> a.c * b.c]
MonoReal(v) == Mono(0, 0, 0, v)

PolyZero == <<>>
PolyAdd(p, m) ==
    IF m.c = 0 THEN p
    ELSE IF m.e \in DOMAIN p
         THEN IF p[m.e] + m.c = 0
              THEN [t \in (DOMAIN p) \ {m.e} |-> p[t]]
              ELSE [p EXCEPT ![m.e] = @ + m.c]
         ELSE [t \in (DOMAIN p) \cup {m.e} |-> IF t = m.e THEN m.c ELSE p[t]]
PolyCoef(p, t) == IF t \in DOMAIN p THEN p[t] ELSE 0
PolyNorm(D, f(_)) == [t \in {s \in D : f(s) # 0} |-> f(t)]
PolySum(p, q) ==
    PolyNorm((DOMAIN p) \cup (DOMAIN q), LAMBDA t : PolyCoef(p, t) + PolyCoef(q, t))
PolyScale(k, p) == PolyNorm(DOMAIN p, LAMBDA t : k * p[t])

\* A grid array of n samples is held by what it contains: sample a is
\* lin[1] + lin[2]*a, plus imp[a] for the cells a in the domain of imp.
Grid(n, c0, c1, imp) == [n |-> n, lin |-> <<c0, c1>>, imp |-> imp]
Sample(f, a) == f.lin[1] + f.lin[2] * a + (IF a \in DOMAIN f.imp THEN f.imp[a] ELSE 0)
GridCells(f) == 0..(f.n - 1)

\* A read of array a at index n; outside the array the value is whatever
\* the adjacent memory holds.
RdExp(a, n) == IF n \in DOMAIN a THEN a[n] ELSE 7
RdInt(a, n) == IF n \in DOMAIN a THEN a[n] ELSE 1
RdGrid(f, n) == IF n \in GridCells(f) THEN Sample(f, n) ELSE 1

\* ------------------------------------------------------------ the state
VARIABLES
    ftaur, ftaui,        \* grid samples, real and imaginary (prhs[0], prhs[1])
    knots,               \* knot coordinates, x then y then z (prhs[2])
    E_3x, E_3y, E_3z,    \* kernel tables (prhs[3..5])
    Scales,              \* [M_sp, taux, tauy, tauz, M_rx, M_ry, M_rz] (prhs[6])
    E_2x, E_2y, E_2z,    \* malloc'ed scratch arrays of TwoM_sp doubles
    outArrayR, outArrayI,
    i, j, l1, l2, l3,
    m1, m2, m3,
    E_2xdummy, E_2ydummy, E_2zdummy,
    V0r, V2r, V1r,
    zind, yind,
    pc,
    touched,             \* history: the grid cells read so far for knot i
    hist,                \* history: inputs and outputs of the calls that returned
    plan                 \* the inputs of the calls still to be made

inputs == <<ftaur, ftaui, knots, E_3x, E_3y, E_3z, Scales>>
scratch == <<E_2x, E_2y, E_2z>>
outs == <<outArrayR, outArrayI>>
calls == <<hist, plan>>
knotLocals == <<m1, m2, m3, E_2xdummy, E_2ydummy, E_2zdummy, V0r>>
vars == <<ftaur, ftaui, knots, E_3x, E_3y, E_3z, Scales, E_2x, E_2y, E_2z,
          outArrayR, outArrayI, i, j, l1, l2, l3, m1, m2, m3,
          E_2xdummy, E_2ydummy, E_2zdummy, V0r, V2r, V1r, zind, yind, pc,
          touched, hist, plan>>

\* The values stored before the loops.
M == Cardinality(DOMAIN knots) \div 3
M_sp == Scales[0]
taux == Scales[1]
tauy == Scales[2]
tauz == Scales[3]
M_rx == Scales[4]
M_ry == Scales[5]
M_rz == Scales[6]
N2 == M_rx * M_ry
N3 == M_rx * M_ry * M_rz
twoM == 2 * M
\* M_r/2 is a double division; the extents of the model are even, so it is exact.
M_rxd2 == M_rx \div 2
M_ryd2 == M_ry \div 2
M_rzd2 == M_rz \div 2
TwoM_sp == 2 * M_sp

\* --------------------------------------------------- per-knot quantities
\* m = floor(M_r*knot/(2*PI)) for knot = 2*pi*k/(M_r*Sub)
LatticeIndex(k) == k \div Sub
\* x = knot - m*PI/M_rd2, in units of (2pi/M_r)/Sub
SubCell(k) == k - LatticeIndex(k) * Sub
\* E_1 = exp(-x*x/(4*tau)), as an exponent in the axis' unit
E_1(k, tau) == 0 - (SubCell(k) * SubCell(k) * (TauLcm \div tau))
\* E_2dummy = exp(x*PI/(M_r*tau)), as an exponent in the axis' unit
E_2dummy(k, tau) == SubCell(k) * 2 * Sub * (TauLcm \div tau)

\* The boundary tests and the wrapped index of each axis.
Flag(b) == IF b THEN 1 ELSE 0
\* Mutants of the index arithmetic: no wraparound; the unshifted modulo; an
\* index held at the grid edge; an inclusive upper test; the x extent used on
\* the z axis; the x and y strides confused.
XindNoWrap(m, l) == m + l + M_rxd2
XindUnshifted(m, l) == (m + l) % M_rx
YindClamp(m, l) ==
    IF m + l >= M_ryd2 THEN M_ry - 1 ELSE m + l + M_ryd2
ZindInclusive(m, l) ==
    LET lz == Flag(m + l + M_rzd2 >= 0)
        rz == Flag(m + l <= M_rzd2)
    IN  m + l + (rz - lz) * M_rz + M_rzd2
ZindOfX(m, l) ==
    LET lz == Flag(m + l + M_rxd2 >= 0)
        rz == Flag(m + l < M_rxd2)
    IN  m + l + (rz - lz) * M_rx + M_rxd2
IndStrides(xi, yi, zi) == xi + M_ry * yi + N2 * zi
Xind(m, l) ==
    LET lx == Flag(m + l + M_rxd2 >= 0)
        rx == Flag(m + l < M_rxd2)
    IN  m + l + (rx - lx) * M_rx + M_rxd2
Yind(m, l) ==
    LET ly == Flag(m + l + M_ryd2 >= 0)
        ry == Flag(m + l < M_ryd2)
    IN  m + l + (ry - ly) * M_ry + M_ryd2
Zind(m, l) ==
    LET lz == Flag(m + l + M_rzd2 >= 0)
        rz == Flag(m + l < M_rzd2)
    IN  m + l + (rz - lz) * M_rz + M_rzd2
Ind(xi, yi, zi) == xi + M_rx * yi + N2 * zi

Wr(a, n, v) == IF n \in DOMAIN a THEN [a EXCEPT ![n] = v] ELSE a

\* ------------------------------------------------------------ the inputs
\* The indices of a C array of n elements.
Idx(n) == 0..(n - 1)

\* Kernel tables of 2*M_sp positive weights, pairwise distinct over the three axes.
TableX(sp) == [a \in Idx(2 * sp) |-> 2 + a]
TableY(sp) == [a \in Idx(2 * sp) |-> 2 + 2 * sp + a]
TableZ(sp) == [a \in Idx(2 * sp) |-> 2 + 4 * sp + a]

Cell(d, cx, cy, cz) == cx + d[1] * cy + d[1] * d[2] * cz
Cells(d) == d[1] * d[2] * d[3]
\* A grid with a different sample in every cell, and grids with one nonzero sample.
RampR(d) == Grid(Cells(d), 1, 1, <<>>)
RampI(d) == Grid(Cells(d), 2, 0 - 1, <<>>)
Impulse(d, c, v) == Grid(Cells(d), 0, 0, IF v = 0 THEN <<>> ELSE [a \in {c} |-> v])
\* The sum of two grids and the multiple of a grid, sample by sample.
GridSum(f, g) ==
    LET D == (DOMAIN f.imp) \cup (DOMAIN g.imp)
        v(a) == (IF a \in DOMAIN f.imp THEN f.imp[a] ELSE 0)
                + (IF a \in DOMAIN g.imp THEN g.imp[a] ELSE 0)
    IN  Grid(f.n, f.lin[1] + g.lin[1], f.lin[2] + g.lin[2],
             [a \in { b \in D : v(b) # 0 } |-> v(a)])
GridScale(k, f) ==
    Grid(f.n, k * f.lin[1], k * f.lin[2],
         [a \in { b \in DOMAIN f.imp : k * f.imp[b] # 0 } |-> k * f.imp[a]])

\* Knot coordinates <<kx, ky, kz>>, each in [0, 2pi).
Last(n) == n * Sub - 1
SweepKnots(d) ==
    { <<k, Last(d[2]), 0>> : k \in 0..Last(d[1]) } \cup
    { <<0, k, Last(d[3])>> : k \in 0..Last(d[2]) } \cup
    { <<Last(d[1]), 0, k>> : k \in 0..Last(d[3]) }
PoolKnots(d) ==
    { <<1, Last(d[2]), 0>>, <<Sub * (d[1] - 1), 0, (d[3] \div 2) * Sub + 1>> }
RECURSIVE KnotLists(_, _)
KnotLists(P, n) ==
    IF n = 0 THEN { <<>> }
    ELSE { Append(q, k) : q \in KnotLists(P, n - 1), k \in P }
\* The knot array of a list of knots: all x, then all y, then all z.
KnotArray(q) ==
    LET n == Len(q)
    IN  [a \in Idx(3 * n) |-> q[(a % n) + 1][(a \div n) + 1]]

Max2(a, b) == IF a > b THEN a ELSE b
Max3(a, b, c) == Max2(a, Max2(b, c))
\* Grid extents: cubes, one axis shorter than the other two, three different axes.
Dims ==
    { d \in Extents \X Extents \X Extents :
        LET lo == Min3(d[1], d[2], d[3])
            hi == Max3(d[1], d[2], d[3])
        IN  \/ lo = hi
            \/ hi = lo + 2 /\ Cardinality({ a \in 1..3 : d[a] = lo }) = 1
            \/ {d[1], d[2], d[3]} = {lo, lo + 2, lo + 4} }
HalfWidths(d) == 1..(Min3(d[1], d[2], d[3]) \div 2)
Call(q, fr, fi) == [knots |-> KnotArray(q), ftaur |-> fr, ftaui |-> fi]
InputThen(d, sp, tau, q, fr, fi, g, then) ==
    [ Scales |-> [a \in Idx(7) |-> <<sp, tau[1], tau[2], tau[3], d[1], d[2], d[3]>>[a + 1]],
      call |-> Call(q, fr, fi), garbage |-> g, plan |-> then ]
Input(d, sp, tau, q, fr, fi, g) == InputThen(d, sp, tau, q, fr, fi, g, <<>>)
\* Spreading widths of the three axes, and what malloc'ed memory holds.
Variants == { <<<<1, TauLcm, TauLcm>>, 7>>, <<<<TauLcm, 1, TauLcm>>, 0 - 5>> }

\* One knot swept along each axis, on the ramp grid.
SweepInputs(d, sp) ==
    { Input(d, sp, <<1, 1, 1>>, <<k>>, RampR(d), RampI(d), 7) : k \in SweepKnots(d) }
\* One knot on the lattice, on a grid with one nonzero sample: a real unit
\* impulse at the centre cell or at the far end of an axis, a complex one at
\* cell 0.
ImpulseInputs(d, sp) ==
    LET hx == d[1] \div 2
        hy == d[2] \div 2
        hz == d[3] \div 2
        XLine == { <<Sub * c, 0, 0>> : c \in 0..(d[1] - 1) }
        YLine == { <<0, Sub * c, 0>> : c \in 0..(d[2] - 1) }
        ZLine == { <<0, 0, Sub * c>> : c \in 0..(d[3] - 1) }
        Corners == { <<Sub * hx, Sub * hy, Sub * hz>>,
                     <<Sub * (d[1] - 1), Sub * (d[2] - 1), Sub * (d[3] - 1)>> }
        Pairs ==
            ((XLine \cup YLine \cup ZLine \cup Corners) \X {Cell(d, hx, hy, hz)})
            \cup (XLine \X {Cell(d, d[1] - 1, hy, hz)})
            \cup (YLine \X {Cell(d, hx, d[2] - 1, hz)})
            \cup (ZLine \X {Cell(d, hx, hy, d[3] - 1)})
    IN  { Input(d, sp, <<1, 1, 1>>, <<x[1]>>, Impulse(d, x[2], 1), Impulse(d, x[2], 0), 7) :
            x \in Pairs } \cup
        { Input(d, sp, <<1, 1, 1>>, <<k>>, Impulse(d, 0, 2), Impulse(d, 0, 0 - 3), 7) :
            k \in XLine \cup Corners }
\* Several knots off the lattice, with different spreading widths on the axes.
ListInputs(d, sp) ==
    { Input(d, sp, v[1], q, RampR(d), RampI(d), v[2]) :
        v \in Variants,
        q \in UNION { KnotLists(PoolKnots(d), n) : n \in 1..MaxKnots } }
Configs == { y \in Dims \X (1..MaxHalfExtent) : y[2] \in HalfWidths(y[1]) }
Inputs ==
    UNION { SweepInputs(x[1], x[2]) \cup ImpulseInputs(x[1], x[2]) \cup ListInputs(x[1], x[2]) :
            x \in Configs }

\* ------------------------------------------------------------ the program
\* The state of one call when the loops start: the outputs as
\* mxCreateDoubleMatrix returns them, the scratch arrays as malloc returns them.
Enter(sc, c, g) ==
    /\ Scales' = sc
    /\ knots' = c.knots
    /\ ftaur' = c.ftaur
    /\ ftaui' = c.ftaui
    /\ E_3x' = TableX(sc[0])
    /\ E_3y' = TableY(sc[0])
    /\ E_3z' = TableZ(sc[0])
    /\ E_2x' = [a \in Idx(2 * sc[0]) |-> g]
    /\ E_2y' = [a \in Idx(2 * sc[0]) |-> g]
    /\ E_2z' = [a \in Idx(2 * sc[0]) |-> g]
    /\ outArrayR' = [a \in Idx(Cardinality(DOMAIN c.knots) \div 3) |-> PolyZero]
    /\ outArrayI' = [a \in Idx(Cardinality(DOMAIN c.knots) \div 3) |-> PolyZero]
    /\ i' = 0 /\ j' = 0 /\ l1' = 0 /\ l2' = 0 /\ l3' = 0
    /\ m1' = 0 /\ m2' = 0 /\ m3' = 0
    /\ E_2xdummy' = 0 /\ E_2ydummy' = 0 /\ E_2zdummy' = 0
    /\ V0r' = MonoReal(0) /\ V2r' = MonoReal(0) /\ V1r' = MonoReal(0)
    /\ zind' = 0 /\ yind' = 0
    /\ touched' = {}
    /\ pc' = "zero"

InitOf(inp) ==
    /\ Scales = inp.Scales
    /\ knots = inp.call.knots
    /\ ftaur = inp.call.ftaur
    /\ ftaui = inp.call.ftaui
    /\ E_3x = TableX(inp.Scales[0])
    /\ E_3y = TableY(inp.Scales[0])
    /\ E_3z = TableZ(inp.Scales[0])
    /\ E_2x = [a \in Idx(2 * inp.Scales[0]) |-> inp.garbage]
    /\ E_2y = [a \in Idx(2 * inp.Scales[0]) |-> inp.garbage]
    /\ E_2z = [a \in Idx(2 * inp.Scales[0]) |-> inp.garbage]
    /\ outArrayR = [a \in Idx(Cardinality(DOMAIN inp.call.knots) \div 3) |-> PolyZero]
    /\ outArrayI = [a \in Idx(Cardinality(DOMAIN inp.call.knots) \div 3) |-> PolyZero]
    /\ i = 0 /\ j = 0 /\ l1 = 0 /\ l2 = 0 /\ l3 = 0
    /\ m1 = 0 /\ m2 = 0 /\ m3 = 0
    /\ E_2xdummy = 0 /\ E_2ydummy = 0 /\ E_2zdummy = 0
    /\ V0r = MonoReal(0) /\ V2r = MonoReal(0) /\ V1r = MonoReal(0)
    /\ zind = 0 /\ yind = 0
    /\ touched = {}
    /\ hist = <<>>
    /\ plan = inp.plan
    /\ pc = "zero"

Init == \E inp \in Inputs : InitOf(inp)

\* Calls made one after the other on related inputs: a grid f, a grid g, their
\* sum and a multiple of f on the same knots; or a grid f on a list of knots,
\* on the reversed list and on its last knot alone.
Reverse(q) == [a \in 1..Len(q) |-> q[Len(q) + 1 - a]]
CallDims == { d \in Dims : Cells(d) <= 64 /\ Cardinality({d[1], d[2], d[3]}) <= 2 }
CallInputs(d, sp) ==
    LET fr == RampR(d)
        fi == RampI(d)
        gr == Impulse(d, Cells(d) - 1, 3)
        gi == GridSum(RampR(d), Impulse(d, 0, 0 - 1))
    IN  UNION {
          { InputThen(d, sp, v[1], q, fr, fi, v[2],
                <<Call(q, gr, gi), Call(q, GridSum(fr, gr), GridSum(fi, gi)),
                  Call(q, GridScale(0 - 2, fr), GridScale(0 - 2, fi))>>),
            InputThen(d, sp, v[1], q, fr, fi, v[2],
                <<Call(Reverse(q), fr, fi), Call(<<q[Len(q)]>>, fr, fi)>>) }
          : v \in Variants, q \in UNION { KnotLists(PoolKnots(d), n) : n \in 1..MaxKnots } }
InitCalls ==
    \E inp \in UNION { CallInputs(x[1], x[2]) : x \in { y \in Configs : y[1] \in CallDims } } :
        InitOf(inp)

\* for(i=0;i<M;i++) { outArrayR[i]=0; outArrayI[i]=0; }
ZeroOut ==
    /\ pc = "zero"
    /\ IF i < M
       THEN /\ outArrayR' = Wr(outArrayR, i, PolyZero)
            /\ outArrayI' = Wr(outArrayI, i, PolyZero)
            /\ i' = i + 1
            /\ pc' = "zero"
       ELSE /\ pc' = "seed"
            /\ UNCHANGED <<outs, i>>
    /\ UNCHANGED <<inputs, scratch, j, l1, l2, l3, knotLocals, V2r, V1r, zind, yind,
                   touched, calls>>

\* E_2x[M_sp-1]=1; E_2y[M_sp-1]=1; E_2z[M_sp-1]=1; then the knot loop starts.
Seed ==
    /\ pc = "seed"
    /\ E_2x' = Wr(E_2x, M_sp - 1, ExpOne)
    /\ E_2y' = Wr(E_2y, M_sp - 1, ExpOne)
    /\ E_2z' = Wr(E_2z, M_sp - 1, ExpOne)
    /\ i' = 0
    /\ pc' = "knot"
    /\ UNCHANGED <<inputs, outs, j, l1, l2, l3, knotLocals, V2r, V1r, zind, yind,
                   touched, calls>>

\* The head of the knot loop: the lattice indices and the Gaussian factors.
KnotHead ==
    /\ pc = "knot"
    /\ IF i < M
       THEN LET knotx == RdInt(knots, i)
                knoty == RdInt(knots, i + M)
                knotz == RdInt(knots, i + twoM)
            IN  /\ m1' = LatticeIndex(knotx)
                /\ m2' = LatticeIndex(knoty)
                /\ m3' = LatticeIndex(knotz)
                /\ E_2xdummy' = E_2dummy(knotx, taux)
                /\ E_2ydummy' = E_2dummy(knoty, tauy)
                /\ E_2zdummy' = E_2dummy(knotz, tauz)
                /\ V0r' = Mono(E_1(knotx, taux), E_1(knoty, tauy), E_1(knotz, tauz), 1)
                /\ j' = M_sp
                /\ touched' = {}
                /\ pc' = "fwd"
       ELSE /\ pc' = "done"
            /\ UNCHANGED <<knotLocals, j, touched>>
    /\ UNCHANGED <<inputs, scratch, outs, i, l1, l2, l3, V2r, V1r, zind, yind, calls>>

\* Mutants of the recurrences: the forward one reads the entry it writes, the
\* backward one multiplies by the ratio instead of its inverse.
ForwardStepInPlace(a, dummy, n) == Wr(a, n, ExpMul(dummy, RdExp(a, n)))
BackwardStepNoInverse(a, dummy, n) == Wr(a, n, ExpMul(RdExp(a, n + 1), dummy))
\* E_2[j] = E_2dummy*E_2[j-1]
ForwardStep(a, dummy, n) == Wr(a, n, ExpMul(dummy, RdExp(a, n - 1)))
\* E_2[j] = E_2[j+1]*E_2dummy_inv, with E_2dummy_inv = 1/E_2dummy
BackwardStep(a, dummy, n) == Wr(a, n, ExpMul(RdExp(a, n + 1), ExpInv(dummy)))

\* for(j=M_sp;j<TwoM_sp;j++)
Forward ==
    /\ pc = "fwd"
    /\ IF j < TwoM_sp
       THEN /\ E_2x' = ForwardStep(E_2x, E_2xdummy, j)
            /\ E_2y' = ForwardStep(E_2y, E_2ydummy, j)
            /\ E_2z' = ForwardStep(E_2z, E_2zdummy, j)
            /\ j' = j + 1
            /\ pc' = "fwd"
       ELSE /\ j' = M_sp - 2
            /\ pc' = "bwd"
            /\ UNCHANGED scratch
    /\ UNCHANGED <<inputs, outs, i, l1, l2, l3, knotLocals, V2r, V1r, zind, yind,
                   touched, calls>>

\* for(j=M_sp-2;j>=0;j--); then E_1xyz and the start of the z loop
Backward ==
    /\ pc = "bwd"
    /\ IF j >= 0
       THEN /\ E_2x' = BackwardStep(E_2x, E_2xdummy, j)
            /\ E_2y' = BackwardStep(E_2y, E_2ydummy, j)
            /\ E_2z' = BackwardStep(E_2z, E_2zdummy, j)
            /\ j' = j - 1
            /\ pc' = "bwd"
            /\ UNCHANGED l3
       ELSE /\ l3' = 1 - M_sp
            /\ pc' = "l3"
            /\ UNCHANGED <<scratch, j>>
    /\ UNCHANGED <<inputs, outs, i, l1, l2, knotLocals, V2r, V1r, zind, yind,
                   touched, calls>>

\* Mutant: the kernel table read one entry further.
E_23xNextTap(l) == Mono(RdExp(E_2x, M_sp + l - 1), 0, 0, RdInt(E_3x, M_sp + l))
\* E_23 = E_2[M_sp+l-1]*E_3[M_sp+l-1] of the three axes
E_23x(l) == Mono(RdExp(E_2x, M_sp + l - 1), 0, 0, RdInt(E_3x, M_sp + l - 1))
E_23y(l) == Mono(0, RdExp(E_2y, M_sp + l - 1), 0, RdInt(E_3y, M_sp + l - 1))
E_23z(l) == Mono(0, 0, RdExp(E_2z, M_sp + l - 1), RdInt(E_3z, M_sp + l - 1))

\* The z loop: V2r and zind of offset l3; past M_sp, the next knot.
LoopZ ==
    /\ pc = "l3"
    /\ IF l3 <= M_sp
       THEN /\ V2r' = MonoMul(V0r, E_23z(l3))
            /\ zind' = Zind(m3, l3)
            /\ l2' = 1 - M_sp
            /\ pc' = "l2"
            /\ UNCHANGED i
       ELSE /\ i' = i + 1
            /\ pc' = "knot"
            /\ UNCHANGED <<V2r, zind, l2>>
    /\ UNCHANGED <<inputs, scratch, outs, j, l1, l3, knotLocals, V1r, yind, touched, calls>>

\* Mutants: the squared sample is accumulated; every term goes to slot 0.
AccumulateSquare(out, n, w, f, ind) ==
    Wr(out, n, PolyAdd(out[n], MonoMul(w, MonoReal(RdGrid(f, ind) * RdGrid(f, ind)))))
AccumulateSlot0(out, n, w, f, ind) ==
    Wr(out, 0, PolyAdd(out[0], MonoMul(w, MonoReal(RdGrid(f, ind)))))
\* out[i] += V1r*E_23x*f[ind]
Accumulate(out, n, w, f, ind) ==
    Wr(out, n, PolyAdd(out[n], MonoMul(w, MonoReal(RdGrid(f, ind)))))

\* for (l1=(1-M_sp);l1<=M_sp;l1++), from offset l on: the term of every
\* offset is added to out[i].
RECURSIVE LoopX(_, _, _, _, _, _)
LoopX(out, f, v1, yi, zi, l) ==
    IF l > M_sp THEN out
    ELSE LoopX(Accumulate(out, i, MonoMul(v1, E_23x(l)), f, Ind(Xind(m1, l), yi, zi)),
               f, v1, yi, zi, l + 1)

\* The y loop: V1r and yind of offset l2, then the whole x loop; past M_sp,
\* the next l3.
LoopY ==
    /\ pc = "l2"
    /\ IF l2 <= M_sp
       THEN /\ V1r' = MonoMul(V2r, E_23y(l2))
            /\ yind' = Yind(m2, l2)
            /\ outArrayR' = LoopX(outArrayR, ftaur, V1r', yind', zind, 1 - M_sp)
            /\ outArrayI' = LoopX(outArrayI, ftaui, V1r', yind', zind, 1 - M_sp)
            /\ touched' = touched \cup
                          { Ind(Xind(m1, l), yind', zind) : l \in (1 - M_sp)..M_sp }
            /\ l1' = M_sp + 1
            /\ l2' = l2 + 1
            /\ pc' = "l2"
            /\ UNCHANGED l3
       ELSE /\ l3' = l3 + 1
            /\ pc' = "l3"
            /\ UNCHANGED <<V1r, yind, l1, l2, outs, touched>>
    /\ UNCHANGED <<inputs, scratch, i, j, knotLocals, V2r, zind, calls>>

Next == ZeroOut \/ Seed \/ KnotHead \/ Forward \/ Backward \/ LoopZ \/ LoopY

Spec == Init /\ [][Next]_vars

\* mexFunction returns and is called again with the next inputs; malloc returns
\* memory holding anything.
Reinvoke ==
    /\ pc = "done"
    /\ plan # <<>>
    /\ hist' = Append(hist, [knots |-> knots, ftaur |-> ftaur, ftaui |-> ftaui,
                             outArrayR |-> outArrayR, outArrayI |-> outArrayI])
    /\ plan' = Tail(plan)
    /\ \E g \in {7, 0 - 5} : Enter(Scales, Head(plan), g)

NextCalls == Next \/ Reinvoke

SpecCalls == InitCalls /\ [][NextCalls]_vars

\* ============================================================ the claims
Window == (1 - M_sp)..M_sp
\* The preconditions of the engine.
Pre ==
    /\ M_sp >= 1
    /\ M_rx % 2 = 0 /\ M_ry % 2 = 0 /\ M_rz % 2 = 0
    /\ 2 * M_sp <= Min3(M_rx, M_ry, M_rz)
    /\ \A k \in 0..(M - 1) :
        /\ knots[k] \in 0..Last(M_rx)
        /\ knots[k + M] \in 0..Last(M_ry)
        /\ knots[k + twoM] \in 0..Last(M_rz)
\* Knot i's own loops are running, and have ended.
InKnot == pc \in {"fwd", "bwd", "l3", "l2"}
KnotEnd == pc = "l3" /\ l3 > M_sp
\* The periodic wrap of m + l, shifted by the half extent.
WrapMod(m, l, n) == (m + l + n \div 2) % n
XOf(c) == c % M_rx
YOf(c) == (c \div M_rx) % M_ry
ZOf(c) == c \div N2
\* The cells where grid f is not zero; f has its only nonzero sample at cell
\* c; f is zero everywhere.
NonZero(f) == { a \in GridCells(f) : Sample(f, a) # 0 }
OnlyAt(f, c) == NonZero(f) = {c}
AllZero(f) == NonZero(f) = {}
\* The cell of the only nonzero complex sample of the grid, if there is one.
ImpulseCell ==
    LET nz == NonZero(ftaur) \cup NonZero(ftaui)
    IN  IF Cardinality(nz) = 1 THEN nz ELSE {}

\* ---- C1
\* E1 * rho^a of a knot coordinate k, and the sum of F over the set S.
AxisWeight(k, tau, a) == ExpMul(E_1(k, tau), ExpPow(E_2dummy(k, tau), a))
RECURSIVE SumOver(_, _)
SumOver(S, F) ==
    IF S = {} THEN 0
    ELSE LET t == CHOOSE u \in S : TRUE
         IN  F[t] + SumOver(S \ {t}, F)
\* The sum over all offset triples <<a1, a2, a3>> of knot k on grid f of
\*   E1x*rho_x^a1 * E1y*rho_y^a2 * E1z*rho_z^a3
\*     * E_3x[a1]*E_3y[a2]*E_3z[a3] * f[wrapped cell of (m1+a1, m2+a2, m3+a3)],
\* the triples of equal exponential weight collected into one coefficient.
SumOf(k, f) ==
    LET kx == knots[k]
        ky == knots[k + M]
        kz == knots[k + twoM]
        X == [a \in Window |-> AxisWeight(kx, taux, a)]
        Y == [a \in Window |-> AxisWeight(ky, tauy, a)]
        Z == [a \in Window |-> AxisWeight(kz, tauz, a)]
        Coefficient(t) ==
            E_3x[M_sp + t[1] - 1] * E_3y[M_sp + t[2] - 1] * E_3z[M_sp + t[3] - 1]
            * Sample(f, WrapMod(LatticeIndex(kx), t[1], M_rx)
                        + M_rx * WrapMod(LatticeIndex(ky), t[2], M_ry)
                        + M_rx * M_ry * WrapMod(LatticeIndex(kz), t[3], M_rz))
        A1 == [v \in { X[a] : a \in Window } |-> { a \in Window : X[a] = v }]
        A2 == [v \in { Y[a] : a \in Window } |-> { a \in Window : Y[a] = v }]
        A3 == [v \in { Z[a] : a \in Window } |-> { a \in Window : Z[a] = v }]
        Collected(e) ==
            SumOver(A3[e[3]], [a3 \in A3[e[3]] |->
                SumOver(A2[e[2]], [a2 \in A2[e[2]] |->
                    SumOver(A1[e[1]], [a1 \in A1[e[1]] |-> Coefficient(<<a1, a2, a3>>)])])])
    IN  PolyNorm((DOMAIN A1) \X (DOMAIN A2) \X (DOMAIN A3),
                 Collected)
Triples == (2 * M_sp) * (2 * M_sp) * (2 * M_sp)

\* C1: when mexFunction returns, the output pair of every knot is the sum over
\* the (2*M_sp)^3 offset triples of E1x*E1y*E1z * rho_x^l1*E_3x[l1] *
\* rho_y^l2*E_3y[l2] * rho_z^l3*E_3z[l3] times the real (imaginary) sample at
\* the wrapped cell of (m1+l1, m2+l2, m3+l3), and nothing else.
C1_OutputIsWeightedSum ==
    pc = "done" =>
        \A k \in 0..(M - 1) :
            /\ outArrayR[k] = SumOf(k, ftaur)
            /\ outArrayI[k] = SumOf(k, ftaui)
C1_Witness ==
    /\ pc = "done" /\ M >= 2 /\ M_sp >= 2
    /\ Cardinality(DOMAIN outArrayR[1]) > 1
    /\ outArrayR[1] # outArrayI[1]

\* ---- C2
\* C2: under the preconditions every array access about to be made is inside
\* its array: outputs in [0, M-1], knots in [0, 3M-1], scratch and kernel
\* tables in [0, 2*M_sp-1], every wrapped axis index in [0, extent-1] and the
\* linear grid index in [0, Nx*Ny*Nz-1].
C2_NoOutOfBounds ==
    Pre =>
        /\ (pc = "zero" /\ i < M) =>
              i \in DOMAIN outArrayR /\ i \in DOMAIN outArrayI /\ i \in 0..(M - 1)
        /\ pc = "seed" =>
              /\ M_sp - 1 \in DOMAIN E_2x /\ M_sp - 1 \in DOMAIN E_2y
              /\ M_sp - 1 \in DOMAIN E_2z /\ M_sp - 1 \in 0..(2 * M_sp - 1)
        /\ (pc = "knot" /\ i < M) =>
              /\ {i, i + M, i + twoM} \subseteq DOMAIN knots
              /\ {i, i + M, i + twoM} \subseteq 0..(3 * M - 1)
        /\ (pc = "fwd" /\ j < TwoM_sp) =>
              /\ {j, j - 1} \subseteq DOMAIN E_2x /\ {j, j - 1} \subseteq DOMAIN E_2y
              /\ {j, j - 1} \subseteq DOMAIN E_2z /\ {j, j - 1} \subseteq 0..(2 * M_sp - 1)
        /\ (pc = "bwd" /\ j >= 0) =>
              /\ {j, j + 1} \subseteq DOMAIN E_2x /\ {j, j + 1} \subseteq DOMAIN E_2y
              /\ {j, j + 1} \subseteq DOMAIN E_2z /\ {j, j + 1} \subseteq 0..(2 * M_sp - 1)
        /\ InKnot =>
              m1 \in 0..(M_rx - 1) /\ m2 \in 0..(M_ry - 1) /\ m3 \in 0..(M_rz - 1)
        /\ (pc = "l3" /\ l3 <= M_sp) =>
              /\ M_sp + l3 - 1 \in DOMAIN E_2z /\ M_sp + l3 - 1 \in DOMAIN E_3z
              /\ M_sp + l3 - 1 \in 0..(2 * M_sp - 1)
              /\ Zind(m3, l3) \in 0..(M_rz - 1)
        /\ (pc = "l2" /\ l2 <= M_sp) =>
              /\ M_sp + l2 - 1 \in DOMAIN E_2y /\ M_sp + l2 - 1 \in DOMAIN E_3y
              /\ M_sp + l2 - 1 \in 0..(2 * M_sp - 1)
              /\ Yind(m2, l2) \in 0..(M_ry - 1)
              /\ zind \in 0..(M_rz - 1)
              /\ i \in DOMAIN outArrayR /\ i \in DOMAIN outArrayI /\ i \in 0..(M - 1)
              /\ \A l \in Window :
                    /\ M_sp + l - 1 \in DOMAIN E_2x /\ M_sp + l - 1 \in DOMAIN E_3x
                    /\ M_sp + l - 1 \in 0..(2 * M_sp - 1)
                    /\ Xind(m1, l) \in 0..(M_rx - 1)
                    /\ Ind(Xind(m1, l), Yind(m2, l2), zind) \in 0..(N3 - 1)
                    /\ Ind(Xind(m1, l), Yind(m2, l2), zind) \in GridCells(ftaur)
                    /\ Ind(Xind(m1, l), Yind(m2, l2), zind) \in GridCells(ftaui)
C2_Witness ==
    /\ Pre /\ pc = "l2" /\ l2 = M_sp
    /\ m1 + M_sp >= M_rx /\ m2 + l2 >= M_ry /\ m3 + l3 >= M_rz
    /\ 2 * M_sp = M_rx
    /\ N3 - 1 \in { Ind(Xind(m1, l), Yind(m2, l2), zind) : l \in Window }

\* ---- C3
\* The number of terms accumulated so far for knot i.
TermsDone == ((l3 + M_sp - 1) * (2 * M_sp) + (l2 + M_sp - 1)) * (2 * M_sp)
\* C3: under the preconditions the offset triples of one knot read pairwise
\* distinct grid cells, (2*M_sp)^3 in all, and on each axis the 2*M_sp offsets
\* give 2*M_sp distinct wrapped indices: no cell is accumulated twice.
C3_DistinctCells ==
    Pre =>
        /\ pc = "l2" => Cardinality(touched) = TermsDone
        /\ KnotEnd =>
              /\ Cardinality(touched) = Triples
              /\ Cardinality({ Xind(m1, l) : l \in Window }) = 2 * M_sp
              /\ Cardinality({ Yind(m2, l) : l \in Window }) = 2 * M_sp
              /\ Cardinality({ Zind(m3, l) : l \in Window }) = 2 * M_sp
C3_Witness ==
    /\ Pre /\ KnotEnd /\ M_sp >= 2
    /\ 2 * M_sp = M_rx /\ 2 * M_sp = M_ry /\ 2 * M_sp = M_rz
    /\ touched = 0..(N3 - 1)

\* ---- C4
\* C4: for lattice index m in [0, N-1] and offset l in the window, the index
\* the boundary flags give is (m + l + N/2) mod N on each axis; at l = 0 it is
\* (m + N/2) mod N.
C4_WrapIsShiftedModulo ==
    Pre =>
        /\ (pc = "l3" /\ l3 <= M_sp) => Zind(m3, l3) = (m3 + l3 + M_rzd2) % M_rz
        /\ pc = "l2" => zind = (m3 + l3 + M_rzd2) % M_rz
        /\ (pc = "l2" /\ l2 <= M_sp) =>
              /\ Yind(m2, l2) = (m2 + l2 + M_ryd2) % M_ry
              /\ \A l \in Window : Xind(m1, l) = (m1 + l + M_rxd2) % M_rx
        /\ (pc = "l2" /\ l2 > 1 - M_sp) => yind = (m2 + l2 - 1 + M_ryd2) % M_ry
        /\ InKnot =>
              /\ Xind(m1, 0) = (m1 + M_rxd2) % M_rx
              /\ Yind(m2, 0) = (m2 + M_ryd2) % M_ry
              /\ Zind(m3, 0) = (m3 + M_rzd2) % M_rz
C4_Witness ==
    /\ Pre /\ pc = "l2" /\ l2 > 1 - M_sp
    /\ m1 + M_sp >= M_rx /\ Xind(m1, M_sp) = m1 + M_sp - M_rxd2
    /\ m2 + l2 - 1 < M_ryd2 /\ yind = m2 + l2 - 1 + M_ryd2
    /\ m3 + l3 = M_rzd2 /\ zind = 0

\* ---- C5
XCells == { XOf(c) : c \in touched }
YCells == { YOf(c) : c \in touched }
ZCells == { ZOf(c) : c \in touched }
\* C5 as stated: a knot with lattice index 0 on an axis reads the last cell
\* N-1 of that axis, whatever N and M_sp.
C5_Original ==
    (Pre /\ KnotEnd) =>
        /\ m1 = 0 => M_rx - 1 \in XCells
        /\ m2 = 0 => M_ry - 1 \in YCells
        /\ m3 = 0 => M_rz - 1 \in ZCells
\* C5, amended: a knot with lattice index 0 on an axis reads the cells
\* N/2+1-M_sp .. N/2+M_sp (mod N) of that axis, so it reads cell N-1 exactly
\* when M_sp >= N/2 - 1; a grid whose only nonzero sample has index N-1 on
\* that axis, inside the window on the other two, gives the knot a nonzero
\* output exactly then.
C5_LastCellReadIffWideWindow ==
    (Pre /\ KnotEnd) =>
        /\ m1 = 0 =>
              /\ XCells = { (M_rxd2 + l) % M_rx : l \in Window }
              /\ (M_rx - 1 \in XCells) <=> (M_sp >= M_rxd2 - 1)
        /\ m2 = 0 =>
              /\ YCells = { (M_ryd2 + l) % M_ry : l \in Window }
              /\ (M_ry - 1 \in YCells) <=> (M_sp >= M_ryd2 - 1)
        /\ m3 = 0 =>
              /\ ZCells = { (M_rzd2 + l) % M_rz : l \in Window }
              /\ (M_rz - 1 \in ZCells) <=> (M_sp >= M_rzd2 - 1)
        /\ \A c \in ImpulseCell :
              LET out == outArrayR[i] # PolyZero \/ outArrayI[i] # PolyZero
              IN  /\ (m1 = 0 /\ XOf(c) = M_rx - 1 /\ YOf(c) \in YCells /\ ZOf(c) \in ZCells)
                        => (out <=> (M_sp >= M_rxd2 - 1))
                  /\ (m2 = 0 /\ YOf(c) = M_ry - 1 /\ XOf(c) \in XCells /\ ZOf(c) \in ZCells)
                        => (out <=> (M_sp >= M_ryd2 - 1))
                  /\ (m3 = 0 /\ ZOf(c) = M_rz - 1 /\ XOf(c) \in XCells /\ YOf(c) \in YCells)
                        => (out <=> (M_sp >= M_rzd2 - 1))
C5_Witness ==
    /\ Pre /\ KnotEnd /\ m1 = 0 /\ M_rx = 6 /\ M_sp = 2
    /\ ImpulseCell = { Cell(<<M_rx, M_ry, M_rz>>, M_rx - 1, M_ryd2, M_rzd2) }
    /\ M_rx - 1 \in XCells
    /\ outArrayR[i] # PolyZero

\* ---- C6
CentralTaps ==
    PolyAdd(PolyZero, MonoReal(E_3x[M_sp - 1] * E_3y[M_sp - 1] * E_3z[M_sp - 1]))
\* Grid <<fr, fi>> is a real unit impulse at cell c.
UnitImpulse(fr, fi, c) == Sample(fr, c) = 1 /\ OnlyAt(fr, c) /\ AllZero(fi)
\* Knot 0 lies on the lattice, at lattice indices <<a, b, c>>.
KnotOnLattice(a, b, c) ==
    knots[0] = Sub * a /\ knots[M] = Sub * b /\ knots[twoM] = Sub * c
\* C6 as stated: with a real unit impulse at cell (cx,cy,cz) and the knot at
\* 2*pi*c/N on each axis, the output is the product of the central taps, with
\* imaginary part 0.
C6_Original ==
    (Pre /\ pc = "done") =>
        \A c \in ImpulseCell :
            (UnitImpulse(ftaur, ftaui, c) /\ KnotOnLattice(XOf(c), YOf(c), ZOf(c))) =>
                (outArrayR[0] = CentralTaps /\ outArrayI[0] = PolyZero)
\* C6, amended: with a real unit impulse at cell (cx,cy,cz) and the knot at
\* 2*pi*((c + N/2) mod N)/N on each axis (the knot whose offset-0 cell is the
\* impulse cell), the output is the product of the central taps, with
\* imaginary part 0.
C6_CentralTapsAtOffsetZeroCell ==
    (Pre /\ pc = "done") =>
        \A c \in ImpulseCell :
            (UnitImpulse(ftaur, ftaui, c)
                /\ KnotOnLattice((XOf(c) + M_rxd2) % M_rx, (YOf(c) + M_ryd2) % M_ry,
                                 (ZOf(c) + M_rzd2) % M_rz)) =>
                (outArrayR[0] = CentralTaps /\ outArrayI[0] = PolyZero)
C6_Witness ==
    /\ Pre /\ pc = "done" /\ M_sp = 2 /\ M_rx = 6
    /\ UnitImpulse(ftaur, ftaui, Cell(<<M_rx, M_ry, M_rz>>, M_rx - 1, M_ryd2, M_rzd2))
    /\ KnotOnLattice(M_rxd2 - 1, 0, 0)
    /\ outArrayR[0] = CentralTaps

\* ---- C8
PeriodicDistance(a, b, n) == Min2((a - b) % n, (b - a) % n)
\* Cell c is more than M_sp lattice spacings from the offset-0 cell of knot i
\* along some axis.
Far(c) ==
    \/ PeriodicDistance(XOf(c), (m1 + M_rxd2) % M_rx, M_rx) > M_sp
    \/ PeriodicDistance(YOf(c), (m2 + M_ryd2) % M_ry, M_ry) > M_sp
    \/ PeriodicDistance(ZOf(c), (m3 + M_rzd2) % M_rz, M_rz) > M_sp
\* C8: a cell more than M_sp lattice spacings (periodically) from the knot's
\* offset-0 cell along some axis is never read for that knot, so a grid whose
\* only nonzero sample is there gives the knot output zero in both components.
C8_FarCellContributesNothing ==
    (Pre /\ KnotEnd) =>
        /\ \A c \in touched : ~Far(c)
        /\ \A c \in ImpulseCell :
              Far(c) => (outArrayR[i] = PolyZero /\ outArrayI[i] = PolyZero)
C8_Witness ==
    /\ Pre /\ KnotEnd /\ M_sp = 2 /\ M_rx = 6
    /\ \E c \in ImpulseCell :
          /\ OnlyAt(ftaur, c) /\ OnlyAt(ftaui, c) /\ Far(c)
          /\ PeriodicDistance(XOf(c), (m1 + M_rxd2) % M_rx, M_rx) = 3
    /\ outArrayR[i] = PolyZero

\* ---- C9
\* C9: while the accumulation loops of a knot run, scratch entry j of each
\* axis is rho^(j - M_sp + 1) for that knot's own ratio rho of the axis; the
\* central entry M_sp-1 is 1 from the seeding on.
C9_ScratchIsPowersOfRho ==
    /\ pc \in {"l3", "l2"} =>
          /\ E_2xdummy = E_2dummy(knots[i], taux)
          /\ E_2ydummy = E_2dummy(knots[i + M], tauy)
          /\ E_2zdummy = E_2dummy(knots[i + twoM], tauz)
          /\ \A n \in 0..(2 * M_sp - 1) :
                /\ E_2x[n] = ExpPow(E_2xdummy, n - M_sp + 1)
                /\ E_2y[n] = ExpPow(E_2ydummy, n - M_sp + 1)
                /\ E_2z[n] = ExpPow(E_2zdummy, n - M_sp + 1)
    /\ pc \notin {"zero", "seed"} =>
          E_2x[M_sp - 1] = ExpOne /\ E_2y[M_sp - 1] = ExpOne /\ E_2z[M_sp - 1] = ExpOne
C9_Witness ==
    /\ pc = "l3" /\ i = 1 /\ M_sp >= 2
    /\ E_2dummy(knots[0], taux) # E_2xdummy
    /\ E_2dummy(knots[M], tauy) # E_2ydummy
    /\ E_2dummy(knots[twoM], tauz) # E_2zdummy
    /\ E_2x[0] # ExpOne /\ E_2y[2 * M_sp - 1] # ExpOne

\* ---- C7
Scalars == (0 - 3)..3
\* Grid h is k times grid f; grid h is the sum of grids f and g.
IsMultiple(h, k, f) ==
    h.n = f.n /\ \A a \in GridCells(h) : Sample(h, a) = k * Sample(f, a)
IsSum(h, f, g) ==
    h.n = f.n /\ h.n = g.n
    /\ \A a \in GridCells(h) : Sample(h, a) = Sample(f, a) + Sample(g, a)
\* C7: for the same knots, kernel tables and parameters, the output on a grid
\* k*f is k times the output on f, and the output on f+g is the sum of the
\* outputs on f and on g, for the real and the imaginary component alike.
C7_LinearInGrid ==
    pc = "done" =>
        \A a \in 1..Len(hist) :
            hist[a].knots = knots =>
                /\ \A k \in Scalars :
                      /\ IsMultiple(ftaur, k, hist[a].ftaur) =>
                            \A n \in 0..(M - 1) :
                                outArrayR[n] = PolyScale(k, hist[a].outArrayR[n])
                      /\ IsMultiple(ftaui, k, hist[a].ftaui) =>
                            \A n \in 0..(M - 1) :
                                outArrayI[n] = PolyScale(k, hist[a].outArrayI[n])
                /\ \A b \in 1..Len(hist) :
                      hist[b].knots = knots =>
                          /\ IsSum(ftaur, hist[a].ftaur, hist[b].ftaur) =>
                                \A n \in 0..(M - 1) :
                                    outArrayR[n] = PolySum(hist[a].outArrayR[n],
                                                           hist[b].outArrayR[n])
                          /\ IsSum(ftaui, hist[a].ftaui, hist[b].ftaui) =>
                                \A n \in 0..(M - 1) :
                                    outArrayI[n] = PolySum(hist[a].outArrayI[n],
                                                           hist[b].outArrayI[n])
C7_Witness ==
    /\ pc = "done" /\ Len(hist) = 3 /\ M >= 2 /\ M_sp >= 2
    /\ IsMultiple(ftaur, 0 - 2, hist[1].ftaur)
    /\ IsSum(hist[3].ftaui, hist[1].ftaui, hist[2].ftaui)
    /\ hist[3].outArrayI[1] = PolySum(hist[1].outArrayI[1], hist[2].outArrayI[1])
    /\ hist[1].outArrayI[1] # PolyZero /\ hist[2].outArrayI[1] # PolyZero
    /\ outArrayR[1] # PolyZero /\ outArrayR[1] # hist[1].outArrayR[1]

\* ---- C10
\* The coordinates of knot n of a knot array.
KnotOf(ks, n) ==
    LET len == Cardinality(DOMAIN ks) \div 3
    IN  <<ks[n], ks[n + len], ks[n + 2 * len]>>
KnotsOf(ks) == 0..((Cardinality(DOMAIN ks) \div 3) - 1)
\* C10: the output of a knot depends on its own coordinates, the grid, the
\* tables and the parameters only: two knots of equal coordinates, in one call
\* or in two calls on the same grid with other knots around them or in another
\* order, get equal outputs; while knot i is processed the slots of the later
\* knots are still zero.
C10_KnotsIndependent ==
    /\ pc = "done" =>
          /\ \A n1, n2 \in KnotsOf(knots) :
                KnotOf(knots, n1) = KnotOf(knots, n2) =>
                    (outArrayR[n1] = outArrayR[n2] /\ outArrayI[n1] = outArrayI[n2])
          /\ \A a \in 1..Len(hist) :
                (hist[a].ftaur = ftaur /\ hist[a].ftaui = ftaui) =>
                    \A n1 \in KnotsOf(hist[a].knots), n2 \in KnotsOf(knots) :
                        KnotOf(hist[a].knots, n1) = KnotOf(knots, n2) =>
                            /\ hist[a].outArrayR[n1] = outArrayR[n2]
                            /\ hist[a].outArrayI[n1] = outArrayI[n2]
    /\ InKnot => \A n \in (i + 1)..(M - 1) :
                    outArrayR[n] = PolyZero /\ outArrayI[n] = PolyZero
C10_Witness ==
    /\ pc = "done" /\ Len(hist) = 2 /\ M = 1 /\ M_sp >= 2
    /\ hist[1].ftaur = ftaur /\ hist[2].ftaur = ftaur
    /\ Cardinality(DOMAIN hist[1].knots) = 6
    /\ KnotOf(hist[1].knots, 0) # KnotOf(hist[1].knots, 1)
    /\ KnotOf(hist[1].knots, 0) = KnotOf(hist[2].knots, 1)
    /\ KnotOf(hist[1].knots, 1) = KnotOf(knots, 0)
    /\ hist[1].outArrayR[1] = outArrayR[0]
    /\ hist[1].outArrayR[0] # outArrayR[0]

====
